---- MODULE Spec2Model ----
(***************************************************************************)
(* Flood alarm system: the polling worker (prediction_worker/worker.py),   *)
(* the middleware API (middleware_api/main.py) and the prediction utility  *)
(* (prediction_utils.py of both), over the hosted backend's tables         *)
(* locations, subscriptions and notifications.                             *)
(*                                                                         *)
(* Units.  A flood percentage is an integer number of hundredths of a      *)
(* percent (get_prediction returns round(pct, 2)).  Time is counted in     *)
(* hours.  A coordinate is an integer number of 1e-7 degrees.              *)
(***************************************************************************)
EXTENDS Integers, Sequences, FiniteSets, TLC

VARIABLES
    locations,      \* table locations: set of rows [id, lat, lon, last_checked_at]
    subscriptions,  \* table subscriptions: set of rows [id, user_id, location_id]
    notifications,  \* table notifications: sequence of rows, in insertion order
    now,            \* the clock, datetime.now(timezone.utc)
    emails,         \* the alert emails SendGrid accepted, in order
    wpc,            \* worker: position in __main__ / main_loop
    pass,           \* worker: number of main_loop runs started
    wLocs,          \* worker: main_loop's local `locations`
    wi,             \* worker: index of `loc` in wLocs
    flood_pct,      \* worker: main_loop's local `flood_pct`
    users,          \* worker: main_loop's local `users`
    ui,             \* worker: index of `u` in users
    staleAtFetch,   \* history: ids of the rows stale when the pass queried them
    calls,          \* history: the backend calls of the current pass, in order
    faults,         \* number of backend calls that have failed so far
    model_loaded,   \* middleware: app_state["model"] is not None
    reqs,           \* middleware: POST /subscribe requests in flight, per slot
    lastResp,       \* middleware: the last response sent
    predIn,         \* prediction utility: the input of one call
    predOut,        \* prediction utility: what that call returned
    LATITUDE,       \* live feed: global LATITUDE
    LONGITUDE,      \* live feed: global LONGITUDE
    latest_result,  \* live feed: global latest_result
    loop,           \* live feed: position and locals of fetch_and_predict_loop
    setReq          \* live feed: the /set_location request in flight

dbVars == <<locations, subscriptions, notifications>>
workerVars == <<wpc, pass, wLocs, wi, flood_pct, users, ui, staleAtFetch, calls>>
apiVars == <<model_loaded, reqs, lastResp>>
predVars == <<predIn, predOut>>
liveVars == <<LATITUDE, LONGITUDE, latest_result, loop, setReq>>
vars == <<locations, subscriptions, notifications, now, emails, wpc, pass,
          wLocs, wi, flood_pct, users, ui, staleAtFetch, calls, faults,
          model_loaded, reqs, lastResp, predIn, predOut,
          LATITUDE, LONGITUDE, latest_result, loop, setReq>>

\* Python's None, and a value that is not None: an optional value is a
\* sequence of length at most one.
None == <<>>
Some(v) == <<v>>
Val(o) == o[1]

(***************************************************************************)
(* Bounds of the model.                                                    *)
(***************************************************************************)
MaxPasses == 2
MaxTime == 2
MaxFaults == 1

(***************************************************************************)
(* Program constants.                                                      *)
(***************************************************************************)
THRESHOLD_PERCENT == 85
CHECK_INTERVAL_HOURS == 1
IMG_HEIGHT == 256
IMG_WIDTH == 256
MIN_IMAGE_SIZE_BYTES == 2000

\* Hundredths of a percent in one percent.
Scale == 100

(***************************************************************************)
(* The auth users of the backend.  u1 and u2 have an email address, u3     *)
(* has none (user_resp.user.email is empty).                               *)
(***************************************************************************)
UserSeq == <<"u1", "u2", "u3">>
Users == {UserSeq[i] : i \in DOMAIN UserSeq}
Email(uid) == IF uid = "u3" THEN None ELSE Some(<<uid, "@mail">>)

(***************************************************************************)
(* Prediction utility.                                                     *)
(***************************************************************************)

\* "image" in r.headers.get("content-type", "")
IsImage(content_type) == content_type \in {"image/jpeg", "image/png"}

\* round(x, 2) of x = num / den percent, in hundredths: Python rounds the exact
\* value to the nearest hundredth, a tie to the even one.  (count / 65536 * 100
\* is exact in a double, so the exact value is what round sees.)
\* (Variant: the digits after the second decimal are cut, not rounded.)
round_trunc(num, den) == (num * Scale) \div den
round(num, den) ==
    LET q == (num * Scale) \div den
        r == (num * Scale) % den
    IN  IF 2 * r > den THEN q + 1
        ELSE IF 2 * r = den THEN (IF q % 2 = 0 THEN q ELSE q + 1)
        ELSE q

\* float(np.sum(prediction > 0.5) / (IMG_HEIGHT * IMG_WIDTH) * 100), rounded:
\* count is the number of mask pixels above 0.5.
FloodPct(count) == round(count * 100, IMG_HEIGHT * IMG_WIDTH)

\* prediction_worker/prediction_utils.py get_prediction.  r is the HTTP
\* response, raises says where an exception is thrown ("none", "fetch",
\* "inference"), count is the mask's number of pixels above 0.5.
WorkerGetPrediction(r, raises, count) ==
    IF raises = "fetch" THEN None
    ELSE IF r.status_code = 200 /\ IsImage(r.content_type)
         THEN (IF raises = "inference" THEN None ELSE Some(FloodPct(count)))
         ELSE None

\* middleware_api/prediction_utils.py get_prediction: a small image is taken
\* for the "No Data" placeholder and answered 0.0 without running the model.
\* (Variant: the content type of the response is not tested.)
MiddlewareGetPrediction_anyContent(r, raises, count) ==
    IF raises = "fetch" THEN None
    ELSE IF r.status_code = 200
         THEN (IF r.size < MIN_IMAGE_SIZE_BYTES THEN Some(0)
               ELSE IF raises = "inference" THEN None
               ELSE Some(FloodPct(count)))
         ELSE None
MiddlewareGetPrediction(r, raises, count) ==
    IF raises = "fetch" THEN None
    ELSE IF r.status_code = 200 /\ IsImage(r.content_type)
         THEN (IF r.size < MIN_IMAGE_SIZE_BYTES THEN Some(0)
               ELSE IF raises = "inference" THEN None
               ELSE Some(FloodPct(count)))
         ELSE None

\* Whether the call ran model.predict to its end.
MiddlewareRanModel(r, raises) ==
    /\ raises = "none"
    /\ r.status_code = 200
    /\ IsImage(r.content_type)
    /\ r.size >= MIN_IMAGE_SIZE_BYTES

\* The HTTP responses of the satellite service the model draws from.
Responses ==
    { [status_code |-> 200, content_type |-> "image/jpeg", size |-> 50000],
      [status_code |-> 200, content_type |-> "image/jpeg", size |-> 1820],
      [status_code |-> 200, content_type |-> "text/html",  size |-> 50000],
      [status_code |-> 404, content_type |-> "text/html",  size |-> 300] }
Raises == {"none", "fetch", "inference"}
\* Mask counts around the alert threshold: 55708 pixels round to 85.00,
\* 55709 to 85.01.
MaskCounts == {0, 55708, 55709}

(***************************************************************************)
(* Worker: prediction_worker/worker.py.                                    *)
(***************************************************************************)

\* Whether one more backend call may fail: the model caps the failures.
FailChoices == IF faults < MaxFaults THEN BOOLEAN ELSE {FALSE}
Fault(fail) == faults' = IF fail THEN faults + 1 ELSE faults

\* The rows of a set, as a sequence in id order (the order the backend
\* returns them in).
RECURSIVE ById(_)
ById(rows) ==
    IF rows = {} THEN <<>>
    ELSE LET first == CHOOSE x \in rows : \A y \in rows : x.id <= y.id
         IN  <<first>> \o ById(rows \ {first})

\* The filter of get_locations_to_check:
\* last_checked_at.lt.{now - CHECK_INTERVAL_HOURS}, last_checked_at.is.null
\* (Variant: lte in place of lt.)
IsStale_le(row, t) ==
    \/ row.last_checked_at = None
    \/ Val(row.last_checked_at) <= t - CHECK_INTERVAL_HOURS
IsStale(row, t) ==
    \/ row.last_checked_at = None
    \/ Val(row.last_checked_at) < t - CHECK_INTERVAL_HOURS

StaleRows == {row \in locations : IsStale(row, now)}

\* get_locations_to_check(): response.data or [], [] when the query raises.
get_locations_to_check(fail) == IF fail THEN <<>> ELSE ById(StaleRows)

\* What the pass is expected to check: the rows whose last_checked_at is null
\* or older than t minus the check interval.
DueForCheck(row, t) ==
    IF row.last_checked_at = None THEN TRUE
    ELSE t - Val(row.last_checked_at) > CHECK_INTERVAL_HOURS

\* flood_pct > THRESHOLD_PERCENT
\* (Variant: >= in place of >.)
AlarmTriggered_ge(pct) == pct >= THRESHOLD_PERCENT * Scale
AlarmTriggered(pct) == pct > THRESHOLD_PERCENT * Scale

\* get_subscribed_users(location_id): failed names the backend call that
\* raises, "subs" for the subscriptions query, a user id for that user's
\* get_user_by_id, "none" for none.  Any exception empties the result.
SubscribedIds(location_id) ==
    {s.user_id : s \in {x \in subscriptions : x.location_id = location_id}}
UserList(ids) ==
    LET subscribed == SelectSeq(UserSeq, LAMBDA uid : uid \in ids)
        found == SelectSeq(subscribed, LAMBDA uid : Email(uid) # None)
    IN  [i \in DOMAIN found |-> [id |-> found[i], email |-> Val(Email(found[i]))]]
get_subscribed_users(location_id, failed) ==
    IF failed # "none" THEN <<>> ELSE UserList(SubscribedIds(location_id))

\* The step after a location is done: the next one, or the end of main_loop.
NextLocation ==
    /\ flood_pct' = None
    /\ users' = <<>>
    /\ ui' = 0
    /\ IF wi < Len(wLocs)
       THEN wi' = wi + 1 /\ wpc' = "predict"
       ELSE wi' = 0 /\ wpc' = "sleep"

Loc == wLocs[wi]

\* main_loop, to its first location: get_locations_to_check, and the return
\* when there is nothing to check.
StartPass ==
    /\ wpc = "start"
    /\ pass < MaxPasses
    /\ pass' = pass + 1
    /\ staleAtFetch' = {row.id : row \in {x \in locations : DueForCheck(x, now)}}
    /\ \E fail \in FailChoices :
         /\ Fault(fail)
         /\ wLocs' = get_locations_to_check(fail)
         /\ calls' = <<[call |-> "fetch", ok |-> ~fail]>>
    /\ wi' = IF wLocs' = <<>> THEN 0 ELSE 1
    /\ wpc' = IF wLocs' = <<>> THEN "sleep" ELSE "predict"
    /\ flood_pct' = None /\ users' = <<>> /\ ui' = 0
    /\ UNCHANGED <<dbVars, now, emails, apiVars, predVars, liveVars>>

\* Where main_loop goes after get_prediction returned pct: the call is in a
\* try whose except continues, and get_prediction itself catches everything,
\* so the call always returns and the timestamp update follows.
\* (Variant: the None test comes before the timestamp update.)
AfterPrediction_skipNone(pct) == IF pct = None THEN "next" ELSE "update"
AfterPrediction(pct) == "update"

\* flood_pct = get_prediction(model, loc["lat"], loc["lon"])
Predict ==
    /\ wpc = "predict"
    /\ \E r \in Responses, raises \in Raises, count \in MaskCounts :
         LET pct == WorkerGetPrediction(r, raises, count) IN
         /\ calls' = Append(calls, [call |-> "predict", loc |-> Loc.id, pct |-> pct])
         /\ IF AfterPrediction(pct) = "update"
            THEN /\ flood_pct' = pct
                 /\ wpc' = "update"
                 /\ UNCHANGED <<wi, users, ui>>
            ELSE NextLocation
    /\ UNCHANGED <<dbVars, now, emails, pass, wLocs, staleAtFetch, faults,
                   apiVars, predVars, liveVars>>

\* update_location_timestamp(loc["id"]), then the tests on flood_pct.
UpdateTimestamp ==
    /\ wpc = "update"
    /\ \E fail \in FailChoices :
         /\ Fault(fail)
         /\ calls' = Append(calls, [call |-> "update", loc |-> Loc.id, ok |-> ~fail,
                                    at |-> now])
         /\ locations' =
              IF fail THEN locations
              ELSE {IF row.id = Loc.id
                    THEN [row EXCEPT !.last_checked_at = Some(now)] ELSE row
                    : row \in locations}
    /\ IF flood_pct # None /\ AlarmTriggered(Val(flood_pct))
       THEN wpc' = "lookup" /\ UNCHANGED <<wi, flood_pct, users, ui>>
       ELSE NextLocation
    /\ UNCHANGED <<subscriptions, notifications, now, emails, pass, wLocs,
                   staleAtFetch, apiVars, predVars, liveVars>>

\* users = get_subscribed_users(loc["id"]), and the continue when it is empty.
LookupUsers ==
    /\ wpc = "lookup"
    /\ \E failed \in {"none"} \cup (IF faults < MaxFaults
                                  THEN {"subs"} \cup SubscribedIds(Loc.id)
                                  ELSE {}) :
         LET us == get_subscribed_users(Loc.id, failed) IN
         /\ Fault(failed # "none")
         /\ calls' = Append(calls, [call |-> "lookup", loc |-> Loc.id,
                                    failed |-> failed,
                                    subs |-> SubscribedIds(Loc.id)])
         /\ IF us = <<>>
            THEN NextLocation
            ELSE /\ users' = us /\ ui' = 1 /\ wpc' = "email"
                 /\ UNCHANGED <<wi, flood_pct>>
    /\ UNCHANGED <<dbVars, now, emails, pass, wLocs, staleAtFetch,
                   apiVars, predVars, liveVars>>

\* send_alert_email(u["email"], loc["name"], flood_pct)
SendAlertEmail ==
    /\ wpc = "email"
    /\ \E fail \in FailChoices :
         /\ Fault(fail)
         /\ calls' = Append(calls, [call |-> "email", loc |-> Loc.id,
                                    user |-> users[ui].id, ok |-> ~fail])
         /\ emails' =
              IF fail THEN emails
              ELSE Append(emails, [to |-> users[ui].email, user_id |-> users[ui].id,
                                   location_id |-> Loc.id, flood_pct |-> Val(flood_pct),
                                   at |-> now, pass |-> pass])
    /\ wpc' = "notify"
    /\ UNCHANGED <<dbVars, now, pass, wLocs, wi, flood_pct, users, ui,
                   staleAtFetch, apiVars, predVars, liveVars>>

\* create_notification(u["id"], loc["id"], loc["name"], flood_pct), then the
\* next user, or the next location.
CreateNotification ==
    /\ wpc = "notify"
    /\ \E fail \in FailChoices :
         /\ Fault(fail)
         /\ calls' = Append(calls, [call |-> "notify", loc |-> Loc.id,
                                    user |-> users[ui].id, ok |-> ~fail])
         /\ notifications' =
              IF fail THEN notifications
              ELSE Append(notifications,
                          [user_id |-> users[ui].id, location_id |-> Loc.id,
                           flood_percentage |-> Val(flood_pct), is_read |-> FALSE,
                           created_at |-> now])
    /\ IF ui < Len(users)
       THEN ui' = ui + 1 /\ wpc' = "email" /\ UNCHANGED <<wi, flood_pct, users>>
       ELSE NextLocation
    /\ UNCHANGED <<locations, subscriptions, now, emails, pass, wLocs,
                   staleAtFetch, apiVars, predVars, liveVars>>

\* __main__: time.sleep(SLEEP_BETWEEN_RUNS) returns and main_loop runs again.
\* SLEEP_BETWEEN_RUNS comes from the environment: the sleep has any length,
\* which Tick supplies.
Wake ==
    /\ wpc = "sleep"
    /\ wpc' = "start"
    /\ UNCHANGED <<dbVars, now, emails, pass, wLocs, wi, flood_pct, users, ui,
                   staleAtFetch, calls, faults, apiVars, predVars, liveVars>>

\* One hour passes: while the worker sleeps, or while it waits for the
\* satellite image and the inference (no other step of a pass reads the clock
\* before the timestamp update that follows the prediction).
Tick ==
    /\ now < MaxTime
    /\ wpc \in {"sleep", "predict"}
    /\ now' = now + 1
    /\ UNCHANGED <<dbVars, emails, workerVars, faults, apiVars, predVars, liveVars>>

WorkerStep ==
    \/ StartPass
    \/ Predict
    \/ UpdateTimestamp
    \/ LookupUsers
    \/ SendAlertEmail
    \/ CreateNotification
    \/ Wake

(***************************************************************************)
(* Middleware: middleware_api/main.py.                                     *)
(***************************************************************************)

\* The User-ID header of a request: missing, empty, or a user id.
Headers == {None, Some(""), Some("u1"), Some("u2")}

\* get_user_id: `if not user_id` raises 401 for a missing and for an empty
\* header.
\* (Variant: `if user_id is None`, which lets an empty header through.)
Authenticated_missingOnly(header) == header # None
Authenticated(header) == header # None /\ Val(header) # ""

\* round(loc.lat, 6), on a coordinate in 1e-7 degrees: the nearest multiple
\* of 10.  (The inputs of the model are off the ties.)
Round6(x) == ((x + 5) \div 10) * 10

\* The coordinates a client may send: the first two round to the same pair.
CoordInputs == {<<6, 20>>, <<14, 20>>, <<14, 34>>}

\* supabase.table("locations").select("id").eq("lat", ..).eq("lon", ..)
\* (Variant: the select without .eq("lon", rounded_lon).)
SelectLocation_latOnly(lat, lon) == {row \in locations : row.lat = lat}
SelectLocation(lat, lon) ==
    {row \in locations : row.lat = lat /\ row.lon = lon}

\* The backend's constraints, as the handler names them: unique_lat_lon on
\* locations, user_location_unique on subscriptions.
UniqueLatLonViolated(lat, lon) ==
    \E row \in locations : row.lat = lat /\ row.lon = lon
\* (Variant: a subscriptions table without the constraint.)
UserLocationUniqueViolated_never(uid, location_id) == FALSE
UserLocationUniqueViolated(uid, location_id) ==
    \E x \in subscriptions : x.user_id = uid /\ x.location_id = location_id

NextId == Cardinality(locations) + 1

\* A row of subscriptions.  The backend generates the id; the model names a
\* row by its pair and its serial number among the rows of that pair.
Sub(uid, location_id, serial) ==
    [id |-> <<uid, location_id, serial>>, user_id |-> uid,
     location_id |-> location_id]
NewSubscription(uid, location_id) ==
    Sub(uid, location_id,
        1 + Cardinality({x \in subscriptions :
                           x.user_id = uid /\ x.location_id = location_id}))

\* Whether the user holds a subscription to a location at the coordinates.
IsSubscribedAt(uid, lat, lon) ==
    \E row \in locations, x \in subscriptions :
       /\ row.lat = lat /\ row.lon = lon
       /\ x.user_id = uid /\ x.location_id = row.id

\* The POST /subscribe requests that may be in flight at once.
Slots == {"a", "b"}
\* existed and subscribed are history: whether, when the request arrived,
\* the locations table held a row for the request's rounded coordinates, and
\* whether the caller was subscribed to it.
IdleReq == [pc |-> "idle", header |-> None, lat |-> 0, lon |-> 0,
            location_id |-> None, found |-> FALSE, touched |-> {},
            existed |-> FALSE, subscribed |-> FALSE]

Respond(endpoint, header, status, touched, body) ==
    lastResp' = [endpoint |-> endpoint, header |-> header, status |-> status,
                 touched |-> touched, body |-> body]

\* What one GET /predict meets: the satellite service's response, where an
\* exception is raised, and the number of mask pixels above 0.5.
Image == [status_code |-> 200, content_type |-> "image/jpeg", size |-> 50000]
PredictInputs ==
    {<<r, "none", 0>> : r \in Responses}
    \cup {<<Image, raises, 0>> : raises \in Raises}
    \cup {<<Image, "none", count>> : count \in MaskCounts}

\* GET /predict
predict_live ==
    /\ \/ \E header \in Headers :
            /\ ~Authenticated(header)
            /\ Respond("predict", header, 401, {}, <<>>)
       \/ \E header \in Headers :
            /\ Authenticated(header)
            /\ ~model_loaded
            /\ Respond("predict", header, 500, {}, <<>>)
       \/ \E header \in Headers, in \in PredictInputs :
            LET pct == MiddlewareGetPrediction(in[1], in[2], in[3])
                body == [fetch |-> in[1], raises |-> in[2],
                         ran_model |-> MiddlewareRanModel(in[1], in[2]),
                         flood_percentage |-> pct]
            IN  /\ Authenticated(header)
                /\ model_loaded
                /\ IF pct = None
                   THEN Respond("predict", header, 503, {"predict"}, body)
                   ELSE Respond("predict", header, 200, {"predict"}, body)
    /\ UNCHANGED <<dbVars, now, emails, workerVars, faults, model_loaded, reqs,
                   predVars, liveVars>>

SubscribeBody(q, detail) ==
    [user_id |-> Val(q.header), lat |-> q.lat, lon |-> q.lon,
     location_id |-> q.location_id, found |-> q.found, existed |-> q.existed,
     subscribed |-> q.subscribed, detail |-> detail]

\* POST /subscribe, to its first backend call: the header check and the
\* rounding of the coordinates.
SubscribeBegin(s) ==
    /\ reqs[s].pc = "idle"
    /\ \E header \in Headers, c \in CoordInputs :
         IF ~Authenticated(header)
         THEN /\ Respond("subscribe", header, 401, {}, <<>>)
              /\ UNCHANGED reqs
         ELSE /\ reqs' = [reqs EXCEPT ![s] =
                            [IdleReq EXCEPT !.pc = "select", !.header = header,
                                            !.lat = Round6(c[1]),
                                            !.lon = Round6(c[2]),
                                            !.existed =
                                              UniqueLatLonViolated(Round6(c[1]),
                                                                   Round6(c[2])),
                                            !.subscribed =
                                              IsSubscribedAt(Val(header),
                                                             Round6(c[1]),
                                                             Round6(c[2]))]]
              /\ UNCHANGED lastResp
    /\ UNCHANGED <<dbVars, now, emails, workerVars, faults, model_loaded,
                   predVars, liveVars>>

\* The except clause of /subscribe for an error that names no constraint.
\* (A failed call of the middleware is not counted in faults: it may happen
\* at any call.)
SubscribeFails(s, touched) ==
    /\ Respond("subscribe", reqs[s].header, 500, touched,
               SubscribeBody(reqs[s], "internal"))
    /\ reqs' = [reqs EXCEPT ![s] = IdleReq]
    /\ UNCHANGED dbVars

\* 1. Check if location already exists.
SubscribeSelect(s) ==
    /\ reqs[s].pc = "select"
    /\ LET q == reqs[s]
           touched == q.touched \cup {"locations"}
           found == SelectLocation(q.lat, q.lon)
       IN  \/ SubscribeFails(s, touched)
           \/ /\ reqs' = [reqs EXCEPT ![s] =
                    IF found # {}
                    THEN [q EXCEPT !.pc = "insert_subscription",
                                   !.location_id = Some(ById(found)[1].id),
                                   !.found = TRUE, !.touched = touched]
                    ELSE [q EXCEPT !.pc = "insert_location",
                                   !.touched = touched]]
              /\ UNCHANGED <<dbVars, lastResp>>
    /\ UNCHANGED <<now, emails, workerVars, faults, model_loaded, predVars, liveVars>>

\* Location does not exist, create it.
SubscribeInsertLocation(s) ==
    /\ reqs[s].pc = "insert_location"
    /\ LET q == reqs[s]
           touched == q.touched \cup {"locations"}
       IN  \/ SubscribeFails(s, touched)
           \/ /\ UniqueLatLonViolated(q.lat, q.lon)
              /\ Respond("subscribe", q.header, 400, touched,
                         SubscribeBody(q, "unique_lat_lon"))
              /\ reqs' = [reqs EXCEPT ![s] = IdleReq]
              /\ UNCHANGED dbVars
           \/ /\ ~UniqueLatLonViolated(q.lat, q.lon)
              /\ locations' = locations \cup
                              {[id |-> NextId, lat |-> q.lat, lon |-> q.lon,
                                last_checked_at |-> None]}
              /\ reqs' = [reqs EXCEPT ![s] =
                            [q EXCEPT !.pc = "insert_subscription",
                                      !.location_id = Some(NextId),
                                      !.touched = touched]]
              /\ UNCHANGED <<subscriptions, notifications, lastResp>>
    /\ UNCHANGED <<now, emails, workerVars, faults, model_loaded, predVars, liveVars>>

\* 2. Now, try to create the subscription.
SubscribeInsertSubscription(s) ==
    /\ reqs[s].pc = "insert_subscription"
    /\ LET q == reqs[s]
           uid == Val(q.header)
           touched == q.touched \cup {"subscriptions"}
       IN  \/ SubscribeFails(s, touched)
           \/ /\ UserLocationUniqueViolated(uid, Val(q.location_id))
              /\ Respond("subscribe", q.header, 400, touched,
                         SubscribeBody(q, "user_location_unique"))
              /\ reqs' = [reqs EXCEPT ![s] = IdleReq]
              /\ UNCHANGED dbVars
           \/ /\ ~UserLocationUniqueViolated(uid, Val(q.location_id))
              /\ subscriptions' = subscriptions \cup
                                  {NewSubscription(uid, Val(q.location_id))}
              /\ Respond("subscribe", q.header, 201, touched,
                         SubscribeBody(q, "success"))
              /\ reqs' = [reqs EXCEPT ![s] = IdleReq]
              /\ UNCHANGED <<locations, notifications>>
    /\ UNCHANGED <<now, emails, workerVars, faults, model_loaded, predVars, liveVars>>

subscribe_to_location(s) ==
    \/ SubscribeBegin(s)
    \/ SubscribeSelect(s)
    \/ SubscribeInsertLocation(s)
    \/ SubscribeInsertSubscription(s)

\* The failure of the one backend call of an endpoint: 500.
EndpointFails(endpoint, header, touched) ==
    /\ Respond(endpoint, header, 500, touched, <<>>)
    /\ UNCHANGED dbVars

\* GET /subscriptions: the rpc get_user_subscriptions joins the user's
\* subscriptions with their locations.
get_my_subscriptions ==
    /\ \E header \in Headers :
         IF ~Authenticated(header)
         THEN Respond("subscriptions", header, 401, {}, <<>>)
              /\ UNCHANGED dbVars
         ELSE LET touched == {"subscriptions", "locations"} IN
              \/ EndpointFails("subscriptions", header, touched)
              \/ /\ Respond("subscriptions", header, 200, touched,
                            {[location_id |-> row.id, lat |-> row.lat,
                              lon |-> row.lon] :
                             row \in {x \in locations :
                                        \E sub \in subscriptions :
                                           /\ sub.user_id = Val(header)
                                           /\ sub.location_id = x.id}})
                 /\ UNCHANGED dbVars
    /\ UNCHANGED <<now, emails, workerVars, faults, model_loaded, reqs,
                   predVars, liveVars>>

\* delete().match({"user_id": user_id, "location_id": location_id})
\* (Variant: the delete matching location_id alone.)
DeleteMatch_locationOnly(rows, uid, location_id) ==
    {x \in rows : ~(x.location_id = location_id)}
DeleteMatch(rows, uid, location_id) ==
    {x \in rows : ~(x.user_id = uid /\ x.location_id = location_id)}

\* DELETE /subscribe/{location_id}.  The response carries history: whether
\* the caller was subscribed, and the number of the worker's last pass.
unsubscribe(header, location_id) ==
    /\   IF ~Authenticated(header)
         THEN Respond("unsubscribe", header, 401, {}, <<>>)
              /\ UNCHANGED dbVars
         ELSE LET body == [location_id |-> location_id, pass |-> pass,
                           subscribed |->
                             \E x \in subscriptions :
                                /\ x.user_id = Val(header)
                                /\ x.location_id = location_id]
              IN
              \/ /\ Respond("unsubscribe", header, 500, {"subscriptions"}, body)
                 /\ UNCHANGED dbVars
              \/ /\ subscriptions' =
                      DeleteMatch(subscriptions, Val(header), location_id)
                 /\ Respond("unsubscribe", header, 200, {"subscriptions"}, body)
                 /\ UNCHANGED <<locations, notifications>>
    /\ UNCHANGED <<now, emails, workerVars, faults, model_loaded, reqs,
                   predVars, liveVars>>

\* The rows of a sequence in reverse: notifications are kept in insertion
\* order, so this is order("created_at", desc=True).
Reverse(seq) == [i \in DOMAIN seq |-> seq[Len(seq) + 1 - i]]

\* GET /notifications
get_my_notifications ==
    /\ \E header \in Headers :
         IF ~Authenticated(header)
         THEN Respond("notifications", header, 401, {}, <<>>)
              /\ UNCHANGED dbVars
         ELSE \/ EndpointFails("notifications", header, {"notifications"})
              \/ /\ Respond("notifications", header, 200, {"notifications"},
                            Reverse(SelectSeq(notifications,
                                LAMBDA n : n.user_id = Val(header))))
                 /\ UNCHANGED dbVars
    /\ UNCHANGED <<now, emails, workerVars, faults, model_loaded, reqs,
                   predVars, liveVars>>

\* update({"is_read": True}).eq("user_id", user_id).eq("is_read", False)
\* (Variant: the update without .eq("user_id", user_id).)
MarkRead_anyUser(rows, uid) ==
    [i \in DOMAIN rows |->
       IF rows[i].is_read = FALSE
       THEN [rows[i] EXCEPT !.is_read = TRUE]
       ELSE rows[i]]
MarkRead(rows, uid) ==
    [i \in DOMAIN rows |->
       IF rows[i].user_id = uid /\ rows[i].is_read = FALSE
       THEN [rows[i] EXCEPT !.is_read = TRUE]
       ELSE rows[i]]

\* POST /notifications/read
mark_notifications_as_read ==
    /\ \E header \in Headers :
         IF ~Authenticated(header)
         THEN Respond("notifications/read", header, 401, {}, <<>>)
              /\ UNCHANGED dbVars
         ELSE \/ EndpointFails("notifications/read", header, {"notifications"})
              \/ /\ notifications' = MarkRead(notifications, Val(header))
                 /\ Respond("notifications/read", header, 200, {"notifications"},
                            <<>>)
                 /\ UNCHANGED <<locations, subscriptions>>
    /\ UNCHANGED <<now, emails, workerVars, faults, model_loaded, reqs,
                   predVars, liveVars>>

ApiStep ==
    \/ predict_live
    \/ \E s \in DOMAIN reqs : subscribe_to_location(s)
    \/ get_my_subscriptions
    \/ \E header \in Headers, location_id \in 1..Cardinality(CoordInputs) :
         unsubscribe(header, location_id)
    \/ get_my_notifications
    \/ mark_notifications_as_read

(***************************************************************************)
(* Live feed: flood_alarm_api/main.py.  A coordinate of the live feed is   *)
(* an integer number of 1e-4 degrees.                                      *)
(***************************************************************************)

\* LATITUDE = 21.9497, LONGITUDE = 89.1833
DefaultCoords == <<219497, 891833>>

\* The coordinates a client may send to /set_location.
LiveCoordInputs == {<<286139, 772090>>}

\* The thread before its first iteration, with the locals unset; fetched is
\* the coordinates build_satellite_url was called with, count the number of
\* mask pixels above 0.5, latitude the value read for the result.
LoopStart == [pc |-> "url_lat", fetched |-> <<0, 0>>, count |-> 0,
              latitude |-> 0]

LiveIdle ==
    /\ LATITUDE = DefaultCoords[1]
    /\ LONGITUDE = DefaultCoords[2]
    /\ latest_result = None
    /\ loop = LoopStart
    /\ setReq = None

LiveOthers == <<dbVars, now, emails, workerVars, faults, apiVars, predVars>>

\* build_satellite_url(LATITUDE, LONGITUDE): the first argument is read.
LoopReadLatitude ==
    /\ loop.pc = "url_lat"
    /\ loop' = [loop EXCEPT !.pc = "url_lon", !.fetched = <<LATITUDE, 0>>]
    /\ UNCHANGED <<LATITUDE, LONGITUDE, latest_result, setReq, LiveOthers>>

\* build_satellite_url(LATITUDE, LONGITUDE): the second argument is read and
\* the URL is built.
LoopReadLongitude ==
    /\ loop.pc = "url_lon"
    /\ loop' = [loop EXCEPT !.pc = "fetch",
                            !.fetched = <<loop.fetched[1], LONGITUDE>>]
    /\ UNCHANGED <<LATITUDE, LONGITUDE, latest_result, setReq, LiveOthers>>

\* Whether requests.get, preprocess_image and model.predict gave a mask: the
\* response is a 200 with an image and nothing raised.
FetchSucceeds(r, raises) ==
    raises = "none" /\ r.status_code = 200 /\ IsImage(r.content_type)

\* r = requests.get(url), and on a 200 with an image the inference.  A failed
\* fetch is printed and the thread sleeps; so does the except clause.
LoopFetch ==
    /\ loop.pc = "fetch"
    /\ \E r \in Responses, raises \in Raises, count \in MaskCounts :
         loop' = IF FetchSucceeds(r, raises)
                 THEN [loop EXCEPT !.pc = "result_lat", !.count = count]
                 ELSE [loop EXCEPT !.pc = "sleep"]
    /\ UNCHANGED <<LATITUDE, LONGITUDE, latest_result, setReq, LiveOthers>>

\* latest_result = {..., "latitude": LATITUDE, ...}: the global is read.
LoopResultLatitude ==
    /\ loop.pc = "result_lat"
    /\ loop' = [loop EXCEPT !.pc = "result_lon", !.latitude = LATITUDE]
    /\ UNCHANGED <<LATITUDE, LONGITUDE, latest_result, setReq, LiveOthers>>

\* flood_detected = bool(flood_pct > 50), on the value before rounding.
FloodDetected(count) == count * 100 > 50 * IMG_HEIGHT * IMG_WIDTH

\* latest_result = {..., "longitude": LONGITUDE, ...}: the global is read and
\* the dict is stored.  fetched is history: the coordinates of the image.
LoopStoreResult ==
    /\ loop.pc = "result_lon"
    /\ latest_result' = Some([timestamp |-> now,
                              latitude |-> loop.latitude,
                              longitude |-> LONGITUDE,
                              flood_detected |-> FloodDetected(loop.count),
                              flood_percentage |-> FloodPct(loop.count),
                              fetched |-> loop.fetched])
    /\ loop' = [loop EXCEPT !.pc = "sleep"]
    /\ UNCHANGED <<LATITUDE, LONGITUDE, setReq, LiveOthers>>

\* time.sleep(FETCH_INTERVAL) returns and the loop goes round.
LoopSleep ==
    /\ loop.pc = "sleep"
    /\ loop' = LoopStart
    /\ UNCHANGED <<LATITUDE, LONGITUDE, latest_result, setReq, LiveOthers>>

fetch_and_predict_loop ==
    \/ LoopReadLatitude
    \/ LoopReadLongitude
    \/ LoopFetch
    \/ LoopResultLatitude
    \/ LoopStoreResult
    \/ LoopSleep

\* GET /set_location: LATITUDE, LONGITUDE = lat, lon stores LATITUDE first,
\* then LONGITUDE; the endpoint runs in a thread of the server's pool.
SetLatitude ==
    /\ setReq = None
    /\ \E c \in LiveCoordInputs :
         /\ LATITUDE' = c[1]
         /\ setReq' = Some(c)
    /\ UNCHANGED <<LONGITUDE, latest_result, loop, LiveOthers>>

SetLongitude ==
    /\ setReq # None
    /\ LONGITUDE' = Val(setReq)[2]
    /\ setReq' = None
    /\ UNCHANGED <<LATITUDE, latest_result, loop, LiveOthers>>

set_location ==
    \/ SetLatitude
    \/ SetLongitude

Waiting == [message |-> "Waiting for first live prediction..."]

\* GET /live: latest_result or the waiting message.
get_live_data ==
    /\ Respond("live", None, 200, {},
               IF latest_result = None THEN Waiting ELSE Val(latest_result))
    /\ UNCHANGED <<dbVars, now, emails, workerVars, faults, model_loaded, reqs,
                   predVars, liveVars>>

NextLive ==
    \/ fetch_and_predict_loop
    \/ set_location
    \/ get_live_data

(***************************************************************************)
(* Initial states.                                                         *)
(***************************************************************************)

\* Coordinates already rounded to 6 decimals, as /subscribe stores them.
Row(id, lat, lon, last) ==
    [id |-> id, lat |-> lat, lon |-> lon, last_checked_at |-> last]

\* Never checked, stale, and checked exactly one interval before time 0.
InitTimestamps == {None, Some(-2), Some(-1)}
InitSubscriptions ==
    { {},
      {Sub("u3", 1, 1), Sub("u2", 2, 1)},
      {Sub("u1", 1, 1), Sub("u2", 1, 1), Sub("u3", 1, 1), Sub("u1", 2, 1)} }

WorkerIdle ==
    /\ wpc = "start" /\ pass = 0 /\ wLocs = <<>> /\ wi = 0
    /\ flood_pct = None /\ users = <<>> /\ ui = 0
    /\ staleAtFetch = {} /\ calls = <<>>
NoResp == [endpoint |-> "none", header |-> None, status |-> 0,
           touched |-> {}, body |-> <<>>]
ApiIdle(slots) ==
    /\ reqs = [s \in slots |-> IdleReq]
    /\ lastResp = NoResp
NotRun == [by |-> "none", result |-> None]
PredIdle ==
    /\ predIn = <<Image, "none", 0>>
    /\ predOut = NotRun

\* The worker over a backend with two locations.
Init ==
    /\ \E t1 \in InitTimestamps, t2 \in InitTimestamps :
         locations = {Row(1, 10, 20, t1), Row(2, 20, 20, t2)}
    /\ subscriptions \in InitSubscriptions
    /\ notifications = <<>>
    /\ now = 0
    /\ emails = <<>>
    /\ faults = 0
    /\ WorkerIdle
    /\ model_loaded = TRUE
    /\ ApiIdle({})
    /\ PredIdle
    /\ LiveIdle

Next ==
    \/ WorkerStep
    \/ Tick

Spec == Init /\ [][Next]_vars

\* The worker is a single thread that runs whenever it can take a step.
FairSpec == Spec /\ WF_vars(WorkerStep)

Notification(uid, location_id, is_read) ==
    [user_id |-> uid, location_id |-> location_id, flood_percentage |-> 9000,
     is_read |-> is_read, created_at |-> 0]

\* The middleware over a backend with no location yet, with the model
\* loaded or not.
InitApi ==
    /\ locations = {}
    /\ subscriptions = {}
    /\ notifications = <<Notification("u1", 1, FALSE)>>
    /\ now = 0
    /\ emails = <<>>
    /\ faults = 0
    /\ WorkerIdle
    /\ model_loaded \in BOOLEAN
    /\ ApiIdle({"a"})
    /\ PredIdle
    /\ LiveIdle

SpecApi == InitApi /\ [][ApiStep]_vars

\* Concurrent POST /subscribe requests over a backend with no location yet.
InitSubscribe ==
    /\ locations = {}
    /\ subscriptions = {}
    /\ notifications = <<>>
    /\ now = 0
    /\ emails = <<>>
    /\ faults = 0
    /\ WorkerIdle
    /\ model_loaded = TRUE
    /\ ApiIdle(Slots)
    /\ PredIdle
    /\ LiveIdle

NextSubscribe == \E s \in DOMAIN reqs : subscribe_to_location(s)

SpecSubscribe == InitSubscribe /\ [][NextSubscribe]_vars

\* POST /notifications/read beside a worker that alerts the two subscribers
\* of one location.
InitNotify ==
    /\ locations = {Row(1, 10, 20, None)}
    /\ subscriptions = {Sub("u1", 1, 1), Sub("u2", 1, 1)}
    /\ notifications = <<>>
    /\ now = 0
    /\ emails = <<>>
    /\ faults = 0
    /\ WorkerIdle
    /\ model_loaded = TRUE
    /\ ApiIdle({})
    /\ PredIdle
    /\ LiveIdle

NextNotify ==
    \/ WorkerStep
    \/ Tick
    \/ mark_notifications_as_read

SpecNotify == InitNotify /\ [][NextNotify]_vars

\* DELETE /subscribe beside a worker that checks two locations within one
\* hour: u1 asks to be unsubscribed from location 1, or from a location that
\* does not exist.
InitUnsubscribe ==
    /\ locations = {Row(1, 10, 20, None), Row(2, 20, 20, None)}
    /\ subscriptions = {Sub("u1", 1, 1), Sub("u2", 1, 1), Sub("u1", 2, 1)}
    /\ notifications = <<>>
    /\ now = 0
    /\ emails = <<>>
    /\ faults = 0
    /\ WorkerIdle
    /\ model_loaded = TRUE
    /\ ApiIdle({})
    /\ PredIdle
    /\ LiveIdle

NextUnsubscribe ==
    \/ WorkerStep
    \/ \E location_id \in {1, 3} : unsubscribe(Some("u1"), location_id)

SpecUnsubscribe == InitUnsubscribe /\ [][NextUnsubscribe]_vars

\* The live-feed API after startup: the thread runs beside the requests.
InitLive ==
    /\ locations = {}
    /\ subscriptions = {}
    /\ notifications = <<>>
    /\ now = 0
    /\ emails = <<>>
    /\ faults = 0
    /\ WorkerIdle
    /\ model_loaded = TRUE
    /\ ApiIdle({})
    /\ PredIdle
    /\ LiveIdle

SpecLive == InitLive /\ [][NextLive]_vars

\* One call of get_prediction, of the worker's utility or of the middleware's,
\* on every mask count an image can give and on every failure of the fetch.
PredInputs ==
    {<<r, raises, 0>> : r \in Responses, raises \in Raises}
    \cup {<<Image, "none", count>> : count \in 0..(IMG_HEIGHT * IMG_WIDTH)}

InitPred ==
    /\ locations = {}
    /\ subscriptions = {}
    /\ notifications = <<>>
    /\ now = 0
    /\ emails = <<>>
    /\ faults = 0
    /\ WorkerIdle
    /\ model_loaded = TRUE
    /\ ApiIdle({})
    /\ predIn \in PredInputs
    /\ predOut = NotRun
    /\ LiveIdle

ApplyWorker ==
    /\ predOut = NotRun
    /\ predOut' = [by |-> "worker",
                   result |-> WorkerGetPrediction(predIn[1], predIn[2], predIn[3])]
    /\ UNCHANGED <<dbVars, now, emails, workerVars, faults, apiVars, predIn, liveVars>>

ApplyMiddleware ==
    /\ predOut = NotRun
    /\ predOut' = [by |-> "middleware",
                   result |-> MiddlewareGetPrediction(predIn[1], predIn[2],
                                                      predIn[3])]
    /\ UNCHANGED <<dbVars, now, emails, workerVars, faults, apiVars, predIn, liveVars>>

NextPred ==
    \/ ApplyWorker
    \/ ApplyMiddleware

SpecPred == InitPred /\ [][NextPred]_vars

(***************************************************************************)
(* Reading the history of the current pass.                                *)
(***************************************************************************)
IsCall(k, kinds) == calls[k].call \in kinds
PredictCalls == SelectSeq(calls, LAMBDA c : c.call = "predict")
PredictedIds == {PredictCalls[k].loc : k \in DOMAIN PredictCalls}
PassOver == wpc = "sleep" /\ pass > 0
FetchOk == calls # <<>> /\ calls[1].ok
AllIds == {row.id : row \in locations}
RowOf(id) == CHOOSE row \in locations : row.id = id
\* The location of call k is done: a later location is being checked, or the
\* pass is over.
LocationDone(k) ==
    \/ wpc \in {"sleep", "start"}
    \/ \E j \in DOMAIN calls : j > k /\ calls[j].call = "predict"
Attempted(kind, location_id, uid) ==
    \E k \in DOMAIN calls :
        /\ calls[k].call = kind
        /\ calls[k].loc = location_id
        /\ calls[k].user = uid

(***************************************************************************)
(* C1.  For a given (user, location) pair, two alert emails the worker     *)
(* sent, and two notification rows it recorded, are at least one check     *)
(* interval apart, whatever backend calls failed.                          *)
(***************************************************************************)
C1_OneAlertPerInterval ==
    /\ \A i, j \in DOMAIN emails :
         (i < j /\ emails[i].user_id = emails[j].user_id
                /\ emails[i].location_id = emails[j].location_id)
         => emails[j].at - emails[i].at >= CHECK_INTERVAL_HOURS
    /\ \A i, j \in DOMAIN notifications :
         (i < j /\ notifications[i].user_id = notifications[j].user_id
                /\ notifications[i].location_id = notifications[j].location_id)
         => notifications[j].created_at - notifications[i].created_at
              >= CHECK_INTERVAL_HOURS

(***************************************************************************)
(* C2 as stated.  When a pass is over, the prediction utility has been     *)
(* invoked once for each location that was due when the pass queried the   *)
(* locations, and for no other location.                                   *)
(***************************************************************************)
C2_ChecksExactlyStale ==
    PassOver => /\ PredictedIds = staleAtFetch
                /\ Len(PredictCalls) = Cardinality(staleAtFetch)

(***************************************************************************)
(* C2 amended.  The prediction utility is only ever invoked for locations  *)
(* that were due when the pass queried them, at most once each; when the   *)
(* query succeeded every due location has been checked once by the end of  *)
(* the pass, and when the query failed none has.                           *)
(***************************************************************************)
C2_ChecksStaleWhenFetched ==
    /\ PredictedIds \subseteq staleAtFetch
    /\ Len(PredictCalls) = Cardinality(PredictedIds)
    /\ (PassOver /\ FetchOk) => PredictedIds = staleAtFetch
    /\ (pass > 0 /\ ~FetchOk) => PredictCalls = <<>>

\* A pass that has checked the due location and left a fresh one alone.
C2_Witness ==
    /\ PassOver /\ FetchOk
    /\ staleAtFetch # {} /\ staleAtFetch # AllIds
    /\ PredictedIds = staleAtFetch

(***************************************************************************)
(* C3.  Every alert email and notification row carries a flood percentage  *)
(* above 85.0, and every send or insert the worker attempts in a pass      *)
(* follows a prediction of that pass for the same location that returned   *)
(* more than 85.0 (not None, not 85.0 or less).                            *)
(***************************************************************************)
C3_AlertOnlyAboveThreshold ==
    /\ \A i \in DOMAIN emails : emails[i].flood_pct > THRESHOLD_PERCENT * Scale
    /\ \A i \in DOMAIN notifications :
         notifications[i].flood_percentage > THRESHOLD_PERCENT * Scale
    /\ \A k \in DOMAIN calls :
         IsCall(k, {"lookup", "email", "notify"}) =>
           \E j \in 1..(k - 1) :
             /\ calls[j].call = "predict"
             /\ calls[j].loc = calls[k].loc
             /\ calls[j].pct # None
             /\ Val(calls[j].pct) > THRESHOLD_PERCENT * Scale
             /\ \A m \in (j + 1)..(k - 1) : calls[m].call # "predict"

\* A pass with a prediction of exactly 85.0 that alerted nobody, and an alert
\* for another location.
C3_Witness ==
    /\ emails # <<>>
    /\ \E k \in DOMAIN calls :
         /\ calls[k].call = "predict"
         /\ calls[k].pct = Some(THRESHOLD_PERCENT * Scale)
         /\ \A j \in DOMAIN calls :
              IsCall(j, {"lookup", "email", "notify"}) => calls[j].loc # calls[k].loc
         /\ \E j \in DOMAIN calls : calls[j].call = "email" /\ calls[j].ok
                                    /\ emails[Len(emails)].pass = pass

(***************************************************************************)
(* C4.  When a location's flood percentage exceeded the threshold and the  *)
(* subscriptions query succeeded, every subscriber with an email address   *)
(* whose own lookup did not fail has had an alert email sent and a         *)
(* notification row inserted by the time the location is done, also when   *)
(* the lookup of another subscriber failed.                                *)
(***************************************************************************)
C4_EverySubscriberAlerted ==
    \A k \in DOMAIN calls :
        (calls[k].call = "lookup" /\ LocationDone(k) /\ calls[k].failed # "subs") =>
          \A uid \in calls[k].subs :
            (Email(uid) # None /\ calls[k].failed # uid) =>
              /\ Attempted("email", calls[k].loc, uid)
              /\ Attempted("notify", calls[k].loc, uid)

(***************************************************************************)
(* C5.  Every invocation of the prediction utility is followed at once by  *)
(* the timestamp update of that location, also when the prediction was     *)
(* None; the subscriber lookup and every alert of a location come after    *)
(* its update; and an update that succeeded leaves the location fresh,     *)
(* stamped with the time of the update.                                    *)
(***************************************************************************)
C5_UpdateBeforeAlert ==
    /\ \A k \in DOMAIN calls :
         calls[k].call = "predict" =>
           IF k = Len(calls) THEN wpc = "update"
           ELSE calls[k + 1].call = "update" /\ calls[k + 1].loc = calls[k].loc
    /\ \A k \in DOMAIN calls :
         IsCall(k, {"lookup", "email", "notify"}) =>
           \E j \in 1..(k - 1) :
             calls[j].call = "update" /\ calls[j].loc = calls[k].loc
    /\ \A k \in DOMAIN calls :
         (calls[k].call = "update" /\ calls[k].ok) =>
           /\ RowOf(calls[k].loc).last_checked_at = Some(calls[k].at)
           /\ ~DueForCheck(RowOf(calls[k].loc), calls[k].at + CHECK_INTERVAL_HOURS)

\* A failed prediction whose location was stamped all the same.
C5_Witness ==
    \E k \in DOMAIN calls :
        /\ calls[k].call = "predict" /\ calls[k].pct = None
        /\ k < Len(calls)
        /\ calls[k + 1].call = "update" /\ calls[k + 1].ok
        /\ RowOf(calls[k].loc).last_checked_at = Some(now)

(***************************************************************************)
(* C9.  A backend call that fails never aborts the pass: the worker is     *)
(* always at a step of the loop, a pass whose query succeeded checks every *)
(* location it fetched, and when a call about one subscriber of a location *)
(* fails (the lookup, the send, the insert) the other subscribers of that  *)
(* location that have an email address are still alerted.                  *)
(***************************************************************************)
C9_FailureNeverAborts ==
    /\ wpc \in {"start", "predict", "update", "lookup", "email", "notify", "sleep"}
    /\ (PassOver /\ FetchOk) =>
         PredictedIds = {wLocs[i].id : i \in DOMAIN wLocs}
    /\ \A k \in DOMAIN calls :
         (calls[k].call = "lookup" /\ LocationDone(k) /\ calls[k].failed # "subs") =>
           \A uid \in calls[k].subs \ {calls[k].failed} :
             Email(uid) # None =>
               /\ Attempted("email", calls[k].loc, uid)
               /\ Attempted("notify", calls[k].loc, uid)

(***************************************************************************)
(* C6.  A response to a request whose User-ID header is missing or empty   *)
(* is a 401 that touched neither the prediction utility nor a table, the   *)
(* step that sends it leaves the three tables and the requests in flight   *)
(* unchanged, and no request in flight carries such a header.              *)
(***************************************************************************)
NoUser(header) == header = None \/ header = Some("")
C6_Rejects401 ==
    [][ /\ (lastResp'.endpoint # "none" /\ NoUser(lastResp'.header)) =>
             /\ lastResp'.status = 401
             /\ lastResp'.touched = {}
             /\ (lastResp' # lastResp => UNCHANGED <<dbVars, reqs>>)
        /\ \A s \in DOMAIN reqs' :
             reqs'[s].pc # "idle" => ~NoUser(reqs'[s].header)
      ]_vars

\* A 401 to an empty header, with a subscription and a notification in the
\* tables it might have touched.
C6_Witness ==
    /\ lastResp.header = Some("")
    /\ lastResp.status = 401
    /\ lastResp.endpoint = "unsubscribe"
    /\ subscriptions # {}
    /\ notifications # <<>>

(***************************************************************************)
(* C7 as stated.  get_prediction returns None or a percentage between 0    *)
(* and 100 equal to 100 * count / (256 * 256), count being the number of   *)
(* mask pixels above 0.5.                                                  *)
(***************************************************************************)
Pixels == IMG_HEIGHT * IMG_WIDTH
C7_ExactPercentage ==
    (predOut.by # "none" /\ predOut.result # None) =>
        /\ Val(predOut.result) >= 0
        /\ Val(predOut.result) <= 100 * Scale
        /\ Val(predOut.result) * Pixels = 100 * Scale * predIn[3]

(***************************************************************************)
(* C7 amended.  get_prediction returns None or a percentage between 0 and  *)
(* 100 that is 100 * count / (256 * 256) rounded to two decimals: within   *)
(* half a hundredth of it, the even hundredth at a tie.                    *)
(***************************************************************************)
C7_RoundedPercentage ==
    (predOut.by # "none" /\ predOut.result # None) =>
        LET v == Val(predOut.result)
            d == v * Pixels - 100 * Scale * predIn[3]
        IN  /\ v >= 0
            /\ v <= 100 * Scale
            /\ 2 * d <= Pixels
            /\ 2 * d >= -Pixels
            /\ (2 * d = Pixels \/ 2 * d = -Pixels) => v % 2 = 0

\* A mask whose percentage is not a whole number of hundredths: a tie.
C7_Witness ==
    /\ predOut.by = "worker"
    /\ predOut.result # None
    /\ predIn[3] = 2048
    /\ Val(predOut.result) = 312

(***************************************************************************)
(* C8 as stated.  An authenticated GET /predict answers 200 only when an   *)
(* image was fetched and run through the model, 500 when no model is       *)
(* loaded, and 503 when the response is not a 200, not an image, a "No     *)
(* Data" placeholder image, or an exception was raised.                    *)
(***************************************************************************)
PredictReplied == lastResp.endpoint = "predict" /\ ~NoUser(lastResp.header)
NoData(r) == r.status_code = 200 /\ IsImage(r.content_type)
             /\ r.size < MIN_IMAGE_SIZE_BYTES
C8_PredictStatuses ==
    PredictReplied =>
        IF ~model_loaded THEN lastResp.status = 500
        ELSE LET r == lastResp.body.fetch
                 raises == lastResp.body.raises
             IN  /\ lastResp.status \in {200, 503}
                 /\ lastResp.status = 200 =>
                      /\ r.status_code = 200 /\ IsImage(r.content_type)
                      /\ lastResp.body.ran_model
                 /\ (r.status_code # 200 \/ ~IsImage(r.content_type)
                     \/ NoData(r) \/ raises # "none") => lastResp.status = 503

(***************************************************************************)
(* C8 amended.  An authenticated GET /predict answers 500 when no model is *)
(* loaded; otherwise 503 when the response is not a 200, not an image, or  *)
(* an exception was raised during the fetch or the inference; otherwise    *)
(* 200, with the model's percentage for an image that was run through the  *)
(* model, and with 0.0 and no inference for a "No Data" placeholder (an    *)
(* image under 2000 bytes).                                                *)
(***************************************************************************)
C8_PredictStatusesNoData ==
    PredictReplied =>
        IF ~model_loaded THEN lastResp.status = 500 /\ lastResp.touched = {}
        ELSE LET r == lastResp.body.fetch
                 raises == lastResp.body.raises
                 failed == \/ r.status_code # 200
                           \/ ~IsImage(r.content_type)
                           \/ raises = "fetch"
                           \/ (raises = "inference" /\ ~NoData(r))
             IN  /\ failed => lastResp.status = 503
                 /\ ~failed => lastResp.status = 200
                 /\ lastResp.status = 200 =>
                      IF NoData(r)
                      THEN /\ ~lastResp.body.ran_model
                           /\ lastResp.body.flood_percentage = Some(0)
                      ELSE /\ lastResp.body.ran_model
                           /\ lastResp.body.flood_percentage # None

\* A 200 for the placeholder image.
C8_Witness ==
    /\ PredictReplied
    /\ model_loaded
    /\ lastResp.status = 200
    /\ NoData(lastResp.body.fetch)

(***************************************************************************)
(* C10.  Whatever the interleaving of POST /subscribe requests: the        *)
(* locations table holds at most one row per rounded (lat, lon) pair and   *)
(* only rounded coordinates; a request that arrived when its coordinates   *)
(* had a row finds that row, takes its id and inserts no location; and a   *)
(* request answered 201 leaves its caller subscribed to the one row of its *)
(* coordinates.                                                            *)
(***************************************************************************)
RowsAt(lat, lon) == {row \in locations : row.lat = lat /\ row.lon = lon}
IsRounded(x) == x % 10 = 0
C10_OneRowPerCoordinates ==
    /\ \A r1, r2 \in locations :
         (r1.lat = r2.lat /\ r1.lon = r2.lon) => r1 = r2
    /\ \A r1, r2 \in locations : r1.id = r2.id => r1 = r2
    /\ \A row \in locations : IsRounded(row.lat) /\ IsRounded(row.lon)
    /\ \A s \in DOMAIN reqs :
         LET q == reqs[s] IN
         /\ (q.pc # "idle" /\ q.existed) => q.pc # "insert_location"
         /\ (q.pc = "insert_subscription" /\ q.existed) => q.found
         /\ (q.pc = "insert_subscription" /\ q.found) =>
              \E row \in RowsAt(q.lat, q.lon) : q.location_id = Some(row.id)
    /\ (lastResp.endpoint = "subscribe" /\ lastResp.status \in {201, 400}) =>
         (lastResp.body.existed =>
            lastResp.body.found /\ lastResp.body.detail # "unique_lat_lon")
    /\ (lastResp.endpoint = "subscribe" /\ lastResp.status = 201) =>
         \E row \in RowsAt(lastResp.body.lat, lastResp.body.lon) :
            /\ lastResp.body.location_id = Some(row.id)
            /\ \E x \in subscriptions :
                  /\ x.user_id = lastResp.body.user_id
                  /\ x.location_id = row.id

\* A second subscriber of coordinates that round to an existing row, while
\* the other request, which raced an insert for other coordinates, is in
\* flight.
C10_Witness ==
    /\ lastResp.endpoint = "subscribe" /\ lastResp.status = 201
    /\ lastResp.body.found /\ lastResp.body.existed
    /\ Cardinality(locations) = 2
    /\ Cardinality(subscriptions) = 3

\* C9, the part about termination: under FairSpec a pass that has started
\* reaches the sleep of the outer loop, and a sleeping worker with passes
\* left starts the next one.
C9_PassTerminates ==
    /\ (wpc \in {"predict", "update", "lookup", "email", "notify"}) ~> (wpc = "sleep")
    /\ \A n \in 1..(MaxPasses - 1) : (wpc = "sleep" /\ pass = n) ~> (pass = n + 1)

(***************************************************************************)
(* C11.  A POST /subscribe by a user who was subscribed to the location at *)
(* its coordinates when the request arrived changes neither locations nor  *)
(* subscriptions at any of its steps and is answered 400 with "You are     *)
(* already subscribed to this location."; and subscriptions holds at most  *)
(* one row per (user, location) pair.                                      *)
(***************************************************************************)
OneSubscriptionPerPair ==
    \A x, y \in subscriptions :
       (x.user_id = y.user_id /\ x.location_id = y.location_id) => x = y

\* The step is one of request s, which arrived already subscribed.
StepOfSubscribed(s) ==
    /\ reqs[s].pc # "idle"
    /\ reqs[s].subscribed
    /\ reqs'[s] # reqs[s]

C11_AlreadySubscribed400 ==
    [][ /\ \A s \in DOMAIN reqs :
             StepOfSubscribed(s) =>
               /\ locations' = locations
               /\ subscriptions' = subscriptions
               /\ reqs'[s].pc = "idle" =>
                    /\ lastResp'.status = 400
                    /\ lastResp'.body.detail = "user_location_unique"
        /\ OneSubscriptionPerPair' ]_vars

\* C11 as the code has it: the answer is 400 "already subscribed" unless a
\* backend call of the request raises an error that names no constraint,
\* which is answered 500; the tables are unchanged either way.
C11_AlreadySubscribed400Or500 ==
    [][ /\ \A s \in DOMAIN reqs :
             StepOfSubscribed(s) =>
               /\ locations' = locations
               /\ subscriptions' = subscriptions
               /\ reqs'[s].pc = "idle" =>
                    \/ /\ lastResp'.status = 400
                       /\ lastResp'.body.detail = "user_location_unique"
                    \/ /\ lastResp'.status = 500
                       /\ lastResp'.body.detail = "internal"
        /\ OneSubscriptionPerPair' ]_vars

\* A subscriber of a location asks for it again, at coordinates that round
\* to the same row, and is answered 400.
C11_Witness ==
    /\ lastResp.endpoint = "subscribe"
    /\ lastResp.status = 400
    /\ lastResp.body.subscribed
    /\ lastResp.body.detail = "user_location_unique"
    /\ \E x \in subscriptions : x.user_id = lastResp.body.user_id

(***************************************************************************)
(* C12.  A POST /notifications/read answered 200 leaves every notification *)
(* row the caller had when it started with is_read = TRUE, leaves the rows *)
(* of other users as they were, adds and deletes no row, and changes       *)
(* nothing when repeated; and a row the worker creates is appended with    *)
(* is_read = FALSE, the rows before it unchanged.                          *)
(***************************************************************************)
\* The step is a POST /notifications/read that returned normally: the
\* worker and the clock did not move and the response is its own.
MarkStep ==
    /\ UNCHANGED <<workerVars, now>>
    /\ lastResp'.endpoint = "notifications/read"
    /\ lastResp'.status = 200

\* The step is one of the worker that changed the notifications table.
WorkerNotifyStep ==
    /\ workerVars' # workerVars
    /\ notifications' # notifications

C12_MarkReadOnlyOwnRows ==
    [][ /\ MarkStep =>
             LET uid == Val(lastResp'.header) IN
             /\ Len(notifications') = Len(notifications)
             /\ \A i \in DOMAIN notifications :
                  notifications'[i] =
                    IF notifications[i].user_id = uid
                    THEN [notifications[i] EXCEPT !.is_read = TRUE]
                    ELSE notifications[i]
             /\ MarkRead(notifications', uid) = notifications'
        /\ WorkerNotifyStep =>
             /\ Len(notifications') = Len(notifications) + 1
             /\ SubSeq(notifications', 1, Len(notifications)) = notifications
             /\ notifications'[Len(notifications')].is_read = FALSE ]_vars

\* u1 has marked its notifications read while a notification of u2 stays
\* unread, and the worker has since added an unread one for u1.
C12_Witness ==
    /\ lastResp.endpoint = "notifications/read"
    /\ lastResp.status = 200
    /\ lastResp.header = Some("u1")
    /\ \E i, j, k \in DOMAIN notifications :
         /\ i < k
         /\ notifications[i].user_id = "u1" /\ notifications[i].is_read
         /\ notifications[j].user_id = "u2" /\ ~notifications[j].is_read
         /\ notifications[k].user_id = "u1" /\ ~notifications[k].is_read

(***************************************************************************)
(* C13.  A DELETE /subscribe/{location_id} by an authenticated caller      *)
(* answers success and leaves subscriptions as it was but for the caller's *)
(* rows for that location, which are gone, and leaves locations as it was; *)
(* in particular nothing changes when the caller was not subscribed.  And  *)
(* after the call, a worker pass that started later has made no attempt to *)
(* email or notify the caller for that location.                           *)
(***************************************************************************)
\* The step is a DELETE /subscribe by an authenticated caller: the worker
\* did not move and the response is its own.
UnsubscribeStep ==
    /\ UNCHANGED workerVars
    /\ lastResp'.endpoint = "unsubscribe"
    /\ Authenticated(lastResp'.header)

\* The subscriptions table without the rows of the pair.
WithoutPair(uid, location_id) ==
    {x \in subscriptions : x.user_id # uid \/ x.location_id # location_id}

\* The current pass started after the last response, a DELETE /subscribe,
\* and it alerts that caller for that location.
AlertsAfterUnsubscribe ==
    /\ pass > lastResp.body.pass
    /\ \/ Attempted("email", lastResp.body.location_id, Val(lastResp.header))
       \/ Attempted("notify", lastResp.body.location_id, Val(lastResp.header))

C13_UnsubscribeOnlyOwnPair ==
    [][ /\ UnsubscribeStep =>
             /\ lastResp'.status = 200
             /\ subscriptions' = WithoutPair(Val(lastResp'.header),
                                             lastResp'.body.location_id)
             /\ ~lastResp'.body.subscribed => subscriptions' = subscriptions
             /\ locations' = locations
        /\ (lastResp'.endpoint = "unsubscribe" /\ Authenticated(lastResp'.header))
             => ~AlertsAfterUnsubscribe' ]_vars

\* C13 as the code has it: a call whose delete raises is answered 500 and
\* changes nothing; every other call by an authenticated caller is answered
\* success and does what C13 says.
C13_UnsubscribeOnlyOwnPairOr500 ==
    [][ /\ UnsubscribeStep =>
             /\ lastResp'.status \in {200, 500}
             /\ lastResp'.status = 200 =>
                  subscriptions' = WithoutPair(Val(lastResp'.header),
                                               lastResp'.body.location_id)
             /\ lastResp'.status = 500 => subscriptions' = subscriptions
             /\ ~lastResp'.body.subscribed => subscriptions' = subscriptions
             /\ locations' = locations
        /\ (lastResp'.endpoint = "unsubscribe" /\ lastResp'.status = 200)
             => ~AlertsAfterUnsubscribe' ]_vars

\* u1 has unsubscribed from location 1; a pass that started later alerts u2
\* for location 1, and u1 is still subscribed to location 2.
C13_Witness ==
    /\ lastResp.endpoint = "unsubscribe"
    /\ lastResp.status = 200
    /\ lastResp.header = Some("u1")
    /\ lastResp.body.location_id = 1
    /\ lastResp.body.subscribed
    /\ pass > lastResp.body.pass
    /\ Attempted("email", 1, "u2")
    /\ \E x \in subscriptions : x.user_id = "u1" /\ x.location_id = 2
    /\ \E x \in subscriptions : x.user_id = "u2" /\ x.location_id = 1

(***************************************************************************)
(* C14.  With /set_location interleaved with fetch_and_predict_loop: GET   *)
(* /live returns the waiting message as long as no prediction has          *)
(* succeeded and latest_result afterwards; latest_result is written only   *)
(* after a successful fetch and inference, so a failed fetch leaves it     *)
(* unchanged; and every latest_result carries as latitude and longitude    *)
(* the coordinates the satellite image of its flood_percentage was fetched *)
(* for.                                                                    *)
(***************************************************************************)
\* The step is a GET /live: the live feed did not move and the response is
\* its own.
LiveStep ==
    /\ UNCHANGED liveVars
    /\ lastResp'.endpoint = "live"

LiveAnswersLatest ==
    LiveStep =>
      lastResp'.body = IF latest_result = None THEN Waiting
                       ELSE Val(latest_result)

ResultOnlyFromSuccess ==
    /\ latest_result' # latest_result =>
         (loop.pc = "result_lon" /\ latest_result' # None)
    /\ (loop.pc = "fetch" /\ loop'.pc = "sleep") =>
         latest_result' = latest_result

ResultMatchesFetch ==
    latest_result' # None =>
      /\ Val(latest_result').latitude = Val(latest_result').fetched[1]
      /\ Val(latest_result').longitude = Val(latest_result').fetched[2]

C14_LiveResultMatchesFetch ==
    [][ /\ LiveAnswersLatest
        /\ ResultOnlyFromSuccess
        /\ ResultMatchesFetch ]_vars

====
